---- MODULE Spec2Model ----
(***************************************************************************)
(* Model of the IntWrapper value type (src/constructors.cpp and            *)
(* src/forwarding.cpp, lines 6-35 of both), of the two main() programs and *)
(* of the forwarding helper valAssign.                                     *)
(*                                                                         *)
(* Every special member function is executed in two steps, in the order    *)
(* the C++ abstract machine runs them: a constructor first runs its member *)
(* initialisers and then its body (the std::cout statement); an assignment *)
(* operator first runs its std::cout statement and then its store.         *)
(* The callers are the two main() functions, statement by statement, and a *)
(* client that issues any statement the type admits.                       *)
(*                                                                         *)
(* `auto wrapper = IntWrapper(22);` initialises wrapper directly from the  *)
(* prvalue (C++17 guaranteed elision, and what every mainstream compiler   *)
(* does by default before C++17), so it is one call of IntWrapper(int).    *)
(***************************************************************************)
EXTENDS Integers, Sequences, FiniteSets, TLC

\* ---------------------------------------------------------------- bounds
MaxObjs == 2      \* objects the client may construct (slots 1..MaxObjs)
MaxOps  == 4      \* statements the client may issue
MaxVal  == 3      \* the client value-constructs with 0..MaxVal

\* ------------------------------------------------------- program constants
DefaultVal2   == 2     \* const int val2{2};
DefaultValue  == 0     \* IntWrapper() : value_(0)
CMainArg      == 22    \* IntWrapper(22) in constructors.cpp
FMainArg      == 2     \* IntWrapper val(2) in forwarding.cpp

Vals  == 0..MaxVal
Slots == 0..MaxObjs          \* slot 0 is valAssign's local `val`
LocalVal == 0

\* ------------------------------------------------------------ the class
\* An object slot: storage that holds no object has alive = FALSE.
NoObj == [alive |-> FALSE, value_ |-> 0, val2 |-> 0]

\* std::move applied to an int: a cast to int&&; initialising or assigning
\* an int from it reads the value and leaves the source as it was.
MoveInt(x) == x

\* Member initialisers of the four constructors (value_ first, then val2,
\* in declaration order).  `o` is the object store, `this` the new slot.
IntWrapper_default(o, this) ==
    [o EXCEPT ![this] = [alive |-> TRUE, value_ |-> DefaultValue, val2 |-> DefaultVal2]]

\* Mutant: val2{value} left out of the initialiser list.
IntWrapper_int_default2(o, this, value) ==
    [o EXCEPT ![this] = [alive |-> TRUE, value_ |-> value, val2 |-> DefaultVal2]]

IntWrapper_int(o, this, value) ==
    [o EXCEPT ![this] = [alive |-> TRUE, value_ |-> value, val2 |-> value]]

\* Mutant: a member-wise copy, val2 taken from the source.
IntWrapper_copy_all(o, this, other) ==
    [o EXCEPT ![this] = [alive |-> TRUE, value_ |-> o[other].value_, val2 |-> o[other].val2]]

IntWrapper_copy(o, this, other) ==
    [o EXCEPT ![this] = [alive |-> TRUE, value_ |-> o[other].value_, val2 |-> DefaultVal2]]

\* Mutant: a member-wise move, val2 taken from the source.
IntWrapper_move_all(o, this, other) ==
    [o EXCEPT ![this] = [alive |-> TRUE, value_ |-> o[other].value_, val2 |-> o[other].val2]]

IntWrapper_move(o, this, other) ==
    [o EXCEPT ![this] = [alive |-> TRUE, value_ |-> MoveInt(o[other].value_), val2 |-> DefaultVal2]]

\* Mutant: the whole object is overwritten, val2 included.
copy_assignment_whole(o, this, other) ==
    [o EXCEPT ![this] = o[other]]

\* Mutant: value_ = value_ (the store reads the destination).
copy_assignment_stale(o, this, other) ==
    [o EXCEPT ![this].value_ = o[this].value_]

\* The store of the two assignment operators.
copy_assignment(o, this, other) ==
    [o EXCEPT ![this].value_ = o[other].value_]

\* Mutant: value_ = std::move(value_) (the store reads the destination).
move_assignment_stale(o, this, other) ==
    [o EXCEPT ![this].value_ = o[this].value_]

\* Mutant: the moved-from source is reset to 0.
move_assignment_reset(o, this, other) ==
    [[o EXCEPT ![this].value_ = o[other].value_] EXCEPT ![other].value_ = 0]

move_assignment(o, this, other) ==
    [o EXCEPT ![this].value_ = MoveInt(o[other].value_)]

\* Scope exit: the destructor is trivial, the storage holds no object.
Destroy(o, this) == [o EXCEPT ![this] = NoObj]

Fns == {"default", "int", "copy", "move", "copy_assign", "move_assign"}
Ctors == {"default", "int", "copy", "move"}
Assigns == {"copy_assign", "move_assign"}

\* The text each member function writes to std::cout.
Marker(fn) ==
    CASE fn = "default"     -> "default const.\n"
      [] fn = "int"         -> "arg constructor\n"
      [] fn = "copy"        -> "copy constructor\n"
      [] fn = "move"        -> "move const.\n"
      [] fn = "copy_assign" -> "copy assignment\n"
      [] fn = "move_assign" -> "move assignment\n"

MarkerLine(fn) == [text |-> Marker(fn), nums |-> <<>>]

\* std::cout << "value: " << val.value_ << std::endl;
ValueLine(v) == [text |-> "value: ", nums |-> <<v>>]

\* ------------------------------------------------- expressions, overloads
\* An argument expression: the object it names, its value category and
\* whether its type is const-qualified.
Cats == {"lvalue", "rvalue"}

\* Mutant: std::forward<T>, which keeps an lvalue an lvalue.
StdMove_forward(cat) == cat

\* std::move(e): static_cast<remove_reference_t<T>&&>(e); the result is an
\* rvalue (xvalue) of the same const-qualification.
StdMove(cat) == "rvalue"

\* Overload resolution between IntWrapper(const IntWrapper&) and
\* IntWrapper(IntWrapper&&): the rvalue-reference overload binds only a
\* non-const rvalue.
CtorOverload(cat, isConst) ==
    IF cat = "rvalue" /\ ~isConst THEN "move" ELSE "copy"

\* Mutant: only the copy-assignment overload is viable.
AssignOverload_copy(cat, isConst) == "copy_assign"

\* Overload resolution between the two operator= overloads.
AssignOverload(cat, isConst) ==
    IF cat = "rvalue" /\ ~isConst THEN "move_assign" ELSE "copy_assign"

\* ----------------------------------------------------------------- state
VARIABLES
    prog,     \* which program runs: "client", "constructors.cpp", "forwarding.cpp"
    pc,       \* source line of the next statement of main (0 for the client)
    ops,      \* statements the client has issued
    obj,      \* the object store: slot -> object
    out,      \* the lines written to std::cout, in order
    frame,    \* the special member function being executed
    va,       \* the activation of valAssign
    pre,      \* the object store when the current/last member function was called
    last      \* the member function that has just returned (nothing has run since)

vars == <<prog, pc, ops, obj, out, frame, va, pre, last>>

NoFrame == [fn |-> "none", this |-> 0, other |-> 0, value |-> 0, step |-> 0, mark |-> 0]
NoVa    == [line |-> 0, arg |-> 0, cat |-> "rvalue", isConst |-> FALSE, mark |-> 0]

\* `mark` is the number of lines on std::cout when the function was called.
Frame(fn, this, other, value) ==
    [fn |-> fn, this |-> this, other |-> other, value |-> value, step |-> 1,
     mark |-> Len(out)]

Idle == frame.fn = "none" /\ va.line = 0

Init ==
    /\ prog \in {"client", "constructors.cpp", "forwarding.cpp"}
    /\ pc = CASE prog = "client" -> 0
              [] prog = "constructors.cpp" -> 61
              [] prog = "forwarding.cpp" -> 50
    /\ ops = 0
    /\ obj = [s \in Slots |-> NoObj]
    /\ out = <<>>
    /\ frame = NoFrame
    /\ va = NoVa
    /\ pre = obj
    /\ last = NoFrame

\* A call of a special member function: the caller is suspended until the
\* frame is popped.
Call(fn, this, other, value) ==
    /\ frame' = Frame(fn, this, other, value)
    /\ pre' = obj
    /\ last' = NoFrame
    /\ UNCHANGED <<obj, out>>

\* ------------------------------------------------ special member functions
\* Constructors: step 1 = member initialisers, step 2 = body.
CtorInit(fn) ==
    /\ frame.fn = fn /\ frame.step = 1
    /\ obj' = CASE fn = "default" -> IntWrapper_default(obj, frame.this)
                [] fn = "int"     -> IntWrapper_int(obj, frame.this, frame.value)
                [] fn = "copy"    -> IntWrapper_copy(obj, frame.this, frame.other)
                [] fn = "move"    -> IntWrapper_move(obj, frame.this, frame.other)
    /\ frame' = [frame EXCEPT !.step = 2]
    /\ UNCHANGED <<prog, pc, ops, out, va, pre, last>>

CtorBody(fn) ==
    /\ frame.fn = fn /\ frame.step = 2
    /\ out' = Append(out, MarkerLine(fn))
    /\ frame' = NoFrame
    /\ last' = frame
    /\ UNCHANGED <<prog, pc, ops, obj, va, pre>>

DefaultCtorInit == CtorInit("default")
DefaultCtorBody == CtorBody("default")
ArgCtorInit     == CtorInit("int")
ArgCtorBody     == CtorBody("int")
CopyCtorInit    == CtorInit("copy")
CopyCtorBody    == CtorBody("copy")
MoveCtorInit    == CtorInit("move")
MoveCtorBody    == CtorBody("move")

\* Mutant: the store is placed before the std::cout statement.
AssignPrint_storeFirst(fn) ==
    /\ frame.fn = fn /\ frame.step = 1
    /\ obj' = CASE fn = "copy_assign" -> copy_assignment(obj, frame.this, frame.other)
                [] fn = "move_assign" -> move_assignment(obj, frame.this, frame.other)
    /\ out' = Append(out, MarkerLine(fn))
    /\ frame' = [frame EXCEPT !.step = 2]
    /\ UNCHANGED <<prog, pc, ops, va, pre, last>>

\* Assignment operators: step 1 = std::cout statement, step 2 = store and
\* return *this.
AssignPrint(fn) ==
    /\ frame.fn = fn /\ frame.step = 1
    /\ out' = Append(out, MarkerLine(fn))
    /\ frame' = [frame EXCEPT !.step = 2]
    /\ UNCHANGED <<prog, pc, ops, obj, va, pre, last>>

AssignStore(fn) ==
    /\ frame.fn = fn /\ frame.step = 2
    /\ obj' = CASE fn = "copy_assign" -> copy_assignment(obj, frame.this, frame.other)
                [] fn = "move_assign" -> move_assignment(obj, frame.this, frame.other)
    /\ frame' = NoFrame
    /\ last' = frame
    /\ UNCHANGED <<prog, pc, ops, out, va, pre>>

CopyAssignPrint == AssignPrint("copy_assign")
CopyAssignStore == AssignStore("copy_assign")
MoveAssignPrint == AssignPrint("move_assign")
MoveAssignStore == AssignStore("move_assign")

\* ------------------------------------------------------------- valAssign
\* template<typename T> void valAssign(T&& valIn)
EnterValAssign(arg, cat, isConst) ==
    va' = [line |-> 43, arg |-> arg, cat |-> cat, isConst |-> isConst,
           mark |-> Len(out)]

\* IntWrapper val = std::move(valIn);
ValAssign43 ==
    /\ va.line = 43 /\ frame.fn = "none"
    /\ Call(CtorOverload(StdMove(va.cat), va.isConst), LocalVal, va.arg, 0)
    /\ va' = [va EXCEPT !.line = 44]
    /\ UNCHANGED <<prog, pc, ops>>

\* std::cout << "value: " << val.value_ << std::endl;
ValAssign44 ==
    /\ va.line = 44 /\ frame.fn = "none"
    /\ out' = Append(out, ValueLine(obj[LocalVal].value_))
    /\ va' = [va EXCEPT !.line = 46]
    /\ last' = NoFrame
    /\ UNCHANGED <<prog, pc, ops, obj, frame, pre>>

\* } : val goes out of scope
ValAssign46 ==
    /\ va.line = 46 /\ frame.fn = "none"
    /\ obj' = Destroy(obj, LocalVal)
    /\ va' = NoVa
    /\ last' = NoFrame
    /\ UNCHANGED <<prog, pc, ops, out, frame, pre>>

\* ------------------------------------------------- constructors.cpp main
Wrapper    == 1
NewWrapper == 2

\* auto wrapper = IntWrapper(22);
CMain61 ==
    /\ prog = "constructors.cpp" /\ pc = 61 /\ Idle
    /\ Call("int", Wrapper, Wrapper, CMainArg)
    /\ pc' = 74
    /\ UNCHANGED <<prog, ops, va>>

\* IntWrapper newWrapper;
CMain74 ==
    /\ prog = "constructors.cpp" /\ pc = 74 /\ Idle
    /\ Call("default", NewWrapper, NewWrapper, 0)
    /\ pc' = 75
    /\ UNCHANGED <<prog, ops, va>>

\* newWrapper = wrapper;
CMain75 ==
    /\ prog = "constructors.cpp" /\ pc = 75 /\ Idle
    /\ Call(AssignOverload("lvalue", FALSE), NewWrapper, Wrapper, 0)
    /\ pc' = 76
    /\ UNCHANGED <<prog, ops, va>>

\* newWrapper = std::move(wrapper);
CMain76 ==
    /\ prog = "constructors.cpp" /\ pc = 76 /\ Idle
    /\ Call(AssignOverload(StdMove("lvalue"), FALSE), NewWrapper, Wrapper, 0)
    /\ pc' = 81
    /\ UNCHANGED <<prog, ops, va>>

\* return 0; newWrapper and wrapper go out of scope
CMain81 ==
    /\ prog = "constructors.cpp" /\ pc = 81 /\ Idle
    /\ obj' = Destroy(Destroy(obj, NewWrapper), Wrapper)
    /\ pc' = 82
    /\ last' = NoFrame
    /\ UNCHANGED <<prog, ops, out, frame, va, pre>>

\* --------------------------------------------------- forwarding.cpp main
FVal == 1

\* IntWrapper val(2);
FMain50 ==
    /\ prog = "forwarding.cpp" /\ pc = 50 /\ Idle
    /\ Call("int", FVal, FVal, FMainArg)
    /\ pc' = 51
    /\ UNCHANGED <<prog, ops, va>>

\* valAssign(std::move(val));
FMain51 ==
    /\ prog = "forwarding.cpp" /\ pc = 51 /\ Idle
    /\ EnterValAssign(FVal, StdMove("lvalue"), FALSE)
    /\ pc' = 53
    /\ UNCHANGED <<prog, ops, obj, out, frame, pre, last>>

\* return 0; val goes out of scope
FMain53 ==
    /\ prog = "forwarding.cpp" /\ pc = 53 /\ Idle
    /\ obj' = Destroy(obj, FVal)
    /\ pc' = 54
    /\ last' = NoFrame
    /\ UNCHANGED <<prog, ops, out, frame, va, pre>>

\* ------------------------------------------------------------ the client
\* Any statement the public interface of IntWrapper admits.
Alive == {s \in 1..MaxObjs : obj[s].alive}
Free  == {s \in 1..MaxObjs : ~obj[s].alive}
NewSlot == CHOOSE s \in Free : \A t \in Free : s <= t

ClientReady == prog = "client" /\ Idle /\ ops < MaxOps

\* IntWrapper x;
ClientDefault ==
    /\ ClientReady /\ Free # {}
    /\ Call("default", NewSlot, NewSlot, 0)
    /\ ops' = ops + 1
    /\ UNCHANGED <<prog, pc, va>>

\* IntWrapper x(v);
ClientArg ==
    /\ ClientReady /\ Free # {}
    /\ \E v \in Vals : Call("int", NewSlot, NewSlot, v)
    /\ ops' = ops + 1
    /\ UNCHANGED <<prog, pc, va>>

\* IntWrapper x = e;
ClientConstruct ==
    /\ ClientReady /\ Free # {}
    /\ \E o \in Alive, cat \in Cats, isConst \in BOOLEAN :
          Call(CtorOverload(cat, isConst), NewSlot, o, 0)
    /\ ops' = ops + 1
    /\ UNCHANGED <<prog, pc, va>>

\* d = e;   (d = d and d = std::move(d) included)
ClientAssign ==
    /\ ClientReady
    /\ \E d \in Alive, o \in Alive, cat \in Cats, isConst \in BOOLEAN :
          Call(AssignOverload(cat, isConst), d, o, 0)
    /\ ops' = ops + 1
    /\ UNCHANGED <<prog, pc, va>>

\* valAssign(e);
ClientValAssign ==
    /\ ClientReady
    /\ \E o \in Alive, cat \in Cats, isConst \in BOOLEAN :
          EnterValAssign(o, cat, isConst)
    /\ ops' = ops + 1
    /\ UNCHANGED <<prog, pc, obj, out, frame, pre, last>>

Next ==
    \/ DefaultCtorInit \/ DefaultCtorBody
    \/ ArgCtorInit \/ ArgCtorBody
    \/ CopyCtorInit \/ CopyCtorBody
    \/ MoveCtorInit \/ MoveCtorBody
    \/ CopyAssignPrint \/ CopyAssignStore
    \/ MoveAssignPrint \/ MoveAssignStore
    \/ ValAssign43 \/ ValAssign44 \/ ValAssign46
    \/ CMain61 \/ CMain74 \/ CMain75 \/ CMain76 \/ CMain81
    \/ FMain50 \/ FMain51 \/ FMain53
    \/ ClientDefault \/ ClientArg \/ ClientConstruct \/ ClientAssign
    \/ ClientValAssign

Spec == Init /\ [][Next]_vars

TypeOK ==
    /\ prog \in {"client", "constructors.cpp", "forwarding.cpp"}
    /\ ops \in 0..MaxOps
    /\ frame.fn \in Fns \cup {"none"}
    /\ Len(out) <= 2 * MaxOps + 4

\* ------------------------------------------------------------ properties
\* The member function fn has just returned: obj is the store it left,
\* pre the store it was called on, last its arguments.
Done(fn) == frame.fn = "none" /\ last.fn = fn

This  == last.this
Other == last.other

\* C1: once an instance is constructed, no step of any program (in
\* particular no copy- or move-assignment, from any source, in any order)
\* changes its val2: val2 keeps the value it received at construction.
C1_Val2Immutable ==
    [][\A s \in Slots :
          (obj[s].alive /\ obj'[s].alive) => obj'[s].val2 = obj[s].val2]_vars

C1_Witness ==
    /\ Done("move_assign") /\ ops >= 4
    /\ This # Other
    /\ pre[This].value_ # pre[Other].value_
    /\ obj[This].val2 # obj[Other].val2
    /\ obj[This].val2 # obj[This].value_

\* C2: IntWrapper(int) called with v leaves value_ = v and val2 = v.
C2_ArgConstruct ==
    Done("int") =>
        /\ obj[This].alive
        /\ obj[This].value_ = last.value
        /\ obj[This].val2 = last.value

C2_Witness ==
    Done("int") /\ last.value \notin {DefaultVal2, DefaultValue}

\* C3: the copy constructor called on o leaves value_ = o.value_ and
\* val2 = 2, whatever o.val2 is.
C3_CopyConstruct ==
    Done("copy") =>
        /\ obj[This].alive
        /\ obj[This].value_ = pre[Other].value_
        /\ obj[This].val2 = 2

C3_Witness ==
    Done("copy") /\ pre[Other].val2 # 2 /\ pre[Other].value_ # 2

\* C4: the move constructor called on o leaves value_ = o.value_ as it was
\* before the move and val2 = 2, whatever o.val2 is.
C4_MoveConstruct ==
    Done("move") =>
        /\ obj[This].alive
        /\ obj[This].value_ = pre[Other].value_
        /\ obj[This].val2 = 2

C4_Witness ==
    Done("move") /\ pre[Other].val2 # 2 /\ pre[Other].value_ # 2

\* C5: copy-assigning o into d sets d.value_ to o.value_ and leaves d.val2
\* as it was before the assignment.
C5_CopyAssign ==
    Done("copy_assign") =>
        /\ obj[This].alive
        /\ obj[This].value_ = pre[Other].value_
        /\ obj[This].val2 = pre[This].val2

C5_Witness ==
    /\ Done("copy_assign")
    /\ This # Other
    /\ pre[This].value_ # pre[Other].value_
    /\ pre[This].val2 # pre[Other].val2

\* C6: move-assigning o into d leaves d as copy-assigning o into the same d
\* would have left it.
C6_MoveAssignAsCopyAssign ==
    Done("move_assign") =>
        obj[This] = copy_assignment(pre, This, Other)[This]

C6_Witness ==
    /\ Done("move_assign")
    /\ This # Other
    /\ pre[This].value_ # pre[Other].value_
    /\ pre[This].val2 # pre[Other].val2
    /\ pre[This].val2 # 2

MarkersDistinct == \A f, g \in Fns : Marker(f) = Marker(g) => f = g

\* The running member function has not written its marker yet.
MarkerPending ==
    \/ frame.fn \in Ctors
    \/ frame.fn \in Assigns /\ frame.step = 1

\* C7 as stated: the six markers are pairwise distinct and every operation
\* writes its marker before it sets or changes the instance: as long as the
\* marker of the running operation is not written, the instance is as it
\* was when the operation was called.
C7_MarkerBeforeTransition ==
    /\ MarkersDistinct
    /\ MarkerPending => obj[frame.this] = pre[frame.this]

\* C7 amended: the six markers are pairwise distinct and every operation
\* writes exactly its own marker; the two assignment operators write it
\* before they change value_, the four constructors write it after their
\* member initialisers have set value_ and val2.
C7_MarkerOrder ==
    /\ \A fn \in Fns :
          Done(fn) =>
             /\ out = Append(SubSeq(out, 1, last.mark), MarkerLine(fn))
             /\ \A g \in Fns \ {fn} : out[Len(out)] # MarkerLine(g)
    /\ (frame.fn \in Assigns /\ frame.step = 1) =>
          obj = pre /\ Len(out) = frame.mark
    /\ (frame.fn \in Assigns /\ frame.step = 2) =>
          /\ obj = pre
          /\ out = Append(SubSeq(out, 1, frame.mark), MarkerLine(frame.fn))
    /\ (frame.fn \in Ctors /\ frame.step = 2) =>
          /\ Len(out) = frame.mark
          /\ ~pre[frame.this].alive
          /\ obj[frame.this].alive
          /\ frame.fn = "default" => obj[frame.this].value_ = DefaultValue
          /\ frame.fn = "int" => obj[frame.this].value_ = frame.value
          /\ frame.fn \in {"copy", "move"} =>
                obj[frame.this].value_ = pre[frame.other].value_

C7_Witness ==
    /\ frame.fn = "move" /\ frame.step = 2
    /\ obj[frame.this].value_ = 3
    /\ \E i \in 1..Len(out) : out[i] = MarkerLine("copy_assign")

CMainTrace ==
    << MarkerLine("int"), MarkerLine("default"),
       MarkerLine("copy_assign"), MarkerLine("move_assign") >>

Holds(s, v, w) == obj[s] = [alive |-> TRUE, value_ |-> v, val2 |-> w]

\* C8: main of constructors.cpp writes the markers of value-construct,
\* default-construct, copy-assign, move-assign in this order and nothing
\* else; wrapper is (22, 22) after line 61, newWrapper is (0, 2) after
\* line 74, (22, 2) after line 75 and (22, 2) after line 76.
C8_ConstructorsMain ==
    prog = "constructors.cpp" =>
        /\ Len(out) <= 4 /\ out = SubSeq(CMainTrace, 1, Len(out))
        /\ (Idle /\ pc = 74) =>
              out = SubSeq(CMainTrace, 1, 1) /\ Holds(Wrapper, 22, 22)
        /\ (Idle /\ pc = 75) =>
              /\ out = SubSeq(CMainTrace, 1, 2)
              /\ Holds(Wrapper, 22, 22) /\ Holds(NewWrapper, 0, 2)
        /\ (Idle /\ pc = 76) =>
              /\ out = SubSeq(CMainTrace, 1, 3)
              /\ Holds(Wrapper, 22, 22) /\ Holds(NewWrapper, 22, 2)
        /\ (Idle /\ pc = 81) =>
              /\ out = CMainTrace
              /\ Holds(Wrapper, 22, 22) /\ Holds(NewWrapper, 22, 2)
        /\ pc = 82 => out = CMainTrace

C8_Witness ==
    prog = "constructors.cpp" /\ pc = 82 /\ out = CMainTrace

\* What valAssign has written since it was entered.
VaOut == SubSeq(out, va.mark + 1, Len(out))

ValAssignMoves ==
    /\ (va.line = 44 /\ frame.fn = "none") =>
          /\ VaOut = << MarkerLine("move") >>
          /\ Holds(LocalVal, pre[va.arg].value_, 2)
    /\ va.line = 46 =>
          VaOut = << MarkerLine("move"), ValueLine(obj[va.arg].value_) >>

FMainTrace == << MarkerLine("int"), MarkerLine("move"), ValueLine(2) >>

FMainRun ==
    prog = "forwarding.cpp" =>
        /\ Len(out) <= 3 /\ out = SubSeq(FMainTrace, 1, Len(out))
        /\ pc = 54 => out = FMainTrace

C10_SourceUnchanged ==
    \A fn \in {"copy", "move", "copy_assign", "move_assign"} :
        Done(fn) =>
            /\ \A s \in Slots \ {This} : obj[s] = pre[s]
            /\ (fn \in Assigns /\ This = Other) => obj = pre

C10_Witness ==
    /\ Done("move_assign")
    /\ This # Other
    /\ pre[Other].value_ = 3
    /\ pre[This].value_ # 3
    /\ obj[Other].value_ = 3
====
